---- MODULE Spec2Model ----
(***************************************************************************)
(* wtt: a command-line time tracker (src/src/main.rs).                     *)
(*                                                                         *)
(* Every invocation of the program loads the whole document from the       *)
(* database file into a Store, performs one Store operation, prints a      *)
(* message and (for a mutating command) writes the Store back.  The model  *)
(* keeps the persisted document (disk), the Store of the running process   *)
(* (store), the parsed command line (cmd), the position of main (pc), the  *)
(* value the Store operation returned (ret), the wall-clock reading the    *)
(* operation took (now) and what was printed on stdout (out).              *)
(***************************************************************************)
EXTENDS Integers, Sequences, FiniteSets, TLC

\* ---------------------------------------------------------------- bounds
MaxSessions == 2      \* sessions a store may hold
MaxTime     == 1      \* wall-clock readings are 0..MaxTime; the wall clock
                      \* may be set back between two runs, so a later
                      \* reading may be the smaller one
MaxLabels   == 2      \* longest label list given on a command line
MaxMinutes  == 130    \* durations formatted are 0..MaxMinutes minutes
MaxText     == 5      \* longest note text wrapped, in bytes
MaxWidth    == 4      \* widest note cell, WTT_PPRINT_NOTE_CELL_MAXLENGTH
MaxParts    == 7      \* lines after which a wrap that goes on is cut off

LabelNames == {"a", "b"}
Notes      == {"n1", "n2"}
Times      == 0 .. MaxTime

\* ---------------------------------------------------------------- Option<T>
None       == << >>
Some(x)    == << x >>
Option(S)  == {None} \cup {Some(x) : x \in S}
is_some(o) == o # None
is_none(o) == o = None
unwrap(o)  == o[1]

LabelLists == UNION {[1 .. n -> LabelNames] : n \in 0 .. MaxLabels}

\* ---------------------------------------------------------------- Session
\* struct Session { id, start_at, end_at, note, labels }
Session(id, start_at, end_at, note, labels) ==
    [id |-> id, start_at |-> start_at, end_at |-> end_at, note |-> note,
     labels |-> labels]

\* Uuid::new_v4().to_string(): an identifier that no session of the store
\* carries (version-4 UUIDs; identifiers are written 1, 2, ...).
Uuid_new_v4(sessions) ==
    CHOOSE id \in 1 .. (Len(sessions) + 1) :
        /\ \A i \in 1 .. Len(sessions) : sessions[i].id # id
        /\ \A j \in 1 .. (id - 1) : \E i \in 1 .. Len(sessions) : sessions[i].id = j

\* The identifiers a command line may name: those of the sessions a store
\* can hold and one that no session ever gets.
IdArgs == 1 .. (MaxSessions + 1)

\* ---------------------------------------------------------------- results
\* Result<T>: Ok(val) with the store the call leaves behind, or Err(err)
\* with the store as the call leaves it.
Ok(sessions, val)  == [ok |-> TRUE,  err |-> "",  val |-> val, sessions |-> sessions]
Err(sessions, err) == [ok |-> FALSE, err |-> err, val |-> 0,   sessions |-> sessions]

ERR_NOT_FOUND     == "The session was not found."
ERR_ALREADY_ENDED == "The session has already ended."
ERR_NO_RUNNING    == "There is no running session."

\* ---------------------------------------------------------------- helpers
RECURSIVE insert_by_key(_, _, _)
\* Insert the reference x after every reference whose start_at is <= that
\* of x: the step of a stable sort.  A reference to a session is its
\* position in sessions.
insert_by_key(sorted, x, sessions) ==
    IF sorted = << >> THEN << x >>
    ELSE IF sessions[Head(sorted)].start_at <= sessions[x].start_at
         THEN << Head(sorted) >> \o insert_by_key(Tail(sorted), x, sessions)
         ELSE << x >> \o sorted

RECURSIVE sort_by_key(_, _)
\* refs.sort_by_key(|x| x.start_at): a stable sort, ascending.
sort_by_key(refs, sessions) ==
    IF refs = << >> THEN << >>
    ELSE insert_by_key(sort_by_key(SubSeq(refs, 1, Len(refs) - 1), sessions),
                       refs[Len(refs)], sessions)

\* self.sessions.iter().filter(pred).collect(): the references to the
\* sessions that pass pred, in store order.
RECURSIVE iter_filter(_, _, _)
iter_filter(sessions, n, pass) ==
    IF n = 0 THEN << >>
    ELSE iter_filter(sessions, n - 1, pass)
         \o (IF n \in pass THEN << n >> ELSE << >>)

Range(seq) == {seq[i] : i \in 1 .. Len(seq)}

\* ---------------------------------------------------------------- Store
\* passes_filter with the upper bound compared by <= instead of <.
passes_filter_strict_to(session, from_timestamp, to_timestamp, labelset) ==
    IF is_some(from_timestamp) /\ unwrap(from_timestamp) > session.start_at
    THEN FALSE
    ELSE IF /\ is_some(to_timestamp)
            /\ is_some(session.end_at)
            /\ unwrap(to_timestamp) <= unwrap(session.end_at)
    THEN FALSE
    ELSE IF /\ Cardinality(labelset) > 0
            /\ ~ \E i \in 1 .. Len(session.labels) : session.labels[i] \in labelset
    THEN FALSE
    ELSE TRUE

\* The closure get_all_sessions filters with.
passes_filter(session, from_timestamp, to_timestamp, labelset) ==
    IF is_some(from_timestamp) /\ unwrap(from_timestamp) > session.start_at
    THEN FALSE
    ELSE IF /\ is_some(to_timestamp)
            /\ is_some(session.end_at)
            /\ unwrap(to_timestamp) < unwrap(session.end_at)
    THEN FALSE
    ELSE IF /\ Cardinality(labelset) > 0
            /\ ~ \E i \in 1 .. Len(session.labels) : session.labels[i] \in labelset
    THEN FALSE
    ELSE TRUE

\* Store::get_all_sessions: the references to the sessions that pass the
\* filter, sorted by start_at.
get_all_sessions(sessions, from_timestamp, to_timestamp, labels) ==
    LET labelset == Range(labels)
        pass == {i \in 1 .. Len(sessions) :
                    passes_filter(sessions[i], from_timestamp, to_timestamp, labelset)}
    IN  sort_by_key(iter_filter(sessions, Len(sessions), pass), sessions)

\* start_session with the id taken from the clock instead of a UUID.
start_session_id_from_clock(sessions, labels, t) ==
    LET session == Session(t + 1, t, None, None, labels)
    IN  Ok(Append(sessions, session), Len(sessions) + 1)

\* start_session that puts the new session first instead of last.
start_session_push_front(sessions, labels, t) ==
    LET session == Session(Uuid_new_v4(sessions), t, None, None, labels)
    IN  Ok(<< session >> \o sessions, 1)

\* start_session that refuses to start while another session is running.
start_session_exclusive(sessions, labels, t) ==
    LET session == Session(Uuid_new_v4(sessions), t, None, None, labels)
    IN  IF \E i \in 1 .. Len(sessions) : is_none(sessions[i].end_at)
        THEN Err(sessions, "A session is already running.")
        ELSE Ok(Append(sessions, session), Len(sessions) + 1)

\* Store::start_session: push a new running session; Ok(reference to it).
start_session(sessions, labels, t) ==
    LET session == Session(Uuid_new_v4(sessions), t, None, None, labels)
    IN  Ok(Append(sessions, session), Len(sessions) + 1)

\* Store::get_session_by_id: the first session carrying id.
get_session_by_id(sessions, id) ==
    LET found == {i \in 1 .. Len(sessions) : sessions[i].id = id}
    IN  IF found # {}
        THEN Ok(sessions, CHOOSE i \in found : \A j \in found : i <= j)
        ELSE Err(sessions, ERR_NOT_FOUND)

\* get_newest_running_session without the sort: the last running session
\* in store order.
get_newest_running_session_unsorted(sessions) ==
    LET running == {i \in 1 .. Len(sessions) : is_none(sessions[i].end_at)}
        running_session_info == iter_filter(sessions, Len(sessions), running)
    IN  IF running_session_info # << >>
        THEN Ok(sessions, running_session_info[Len(running_session_info)])
        ELSE Err(sessions, ERR_NO_RUNNING)

\* get_newest_running_session by a scan that keeps the first session of
\* the greatest start_at.
get_newest_running_session_first_of_ties(sessions) ==
    LET running == {i \in 1 .. Len(sessions) : is_none(sessions[i].end_at)}
        newest == {i \in running :
                      \A j \in running : sessions[j].start_at <= sessions[i].start_at}
    IN  IF running # {}
        THEN Ok(sessions, CHOOSE i \in newest : \A j \in newest : i <= j)
        ELSE Err(sessions, ERR_NO_RUNNING)

\* Store::get_newest_running_session: the last of the running sessions
\* after a stable sort by start_at.
get_newest_running_session(sessions) ==
    LET running == {i \in 1 .. Len(sessions) : is_none(sessions[i].end_at)}
        running_session_info ==
            sort_by_key(iter_filter(sessions, Len(sessions), running), sessions)
    IN  IF running_session_info # << >>
        THEN Ok(sessions, running_session_info[Len(running_session_info)])
        ELSE Err(sessions, ERR_NO_RUNNING)

\* end_session without the test for a session that has already ended.
end_session_no_ended_check(sessions, id, note, t) ==
    LET session ==
            IF is_some(id)
            THEN get_session_by_id(sessions, unwrap(id))
            ELSE get_newest_running_session(sessions)
    IN  IF ~ session.ok THEN session
        ELSE Ok([sessions EXCEPT ![session.val].end_at = Some(t),
                                 ![session.val].note = note],
                session.val)

\* end_session that writes end_at and note before it tests whether the
\* session had already ended.
end_session_check_after(sessions, id, note, t) ==
    LET session ==
            IF is_some(id)
            THEN get_session_by_id(sessions, unwrap(id))
            ELSE get_newest_running_session(sessions)
        written ==
            [sessions EXCEPT ![session.val].end_at = Some(t),
                             ![session.val].note = note]
    IN  IF ~ session.ok THEN session
        ELSE IF is_some(sessions[session.val].end_at)
             THEN Err(written, ERR_ALREADY_ENDED)
             ELSE Ok(written, session.val)

\* end_session that writes the note only when one is given.
end_session_keep_note(sessions, id, note, t) ==
    LET session ==
            IF is_some(id)
            THEN LET found == get_session_by_id(sessions, unwrap(id))
                 IN  IF ~ found.ok THEN found
                     ELSE IF is_some(sessions[found.val].end_at)
                          THEN Err(sessions, ERR_ALREADY_ENDED)
                          ELSE found
            ELSE get_newest_running_session(sessions)
    IN  IF ~ session.ok THEN session
        ELSE Ok([sessions EXCEPT ![session.val].end_at = Some(t),
                                 ![session.val].note =
                                     IF is_some(note) THEN note ELSE @],
                session.val)

\* Store::end_session.
end_session(sessions, id, note, t) ==
    LET session ==
            IF is_some(id)
            THEN LET found == get_session_by_id(sessions, unwrap(id))
                 IN  IF ~ found.ok THEN found
                     ELSE IF is_some(sessions[found.val].end_at)
                          THEN Err(sessions, ERR_ALREADY_ENDED)
                          ELSE found
            ELSE get_newest_running_session(sessions)
    IN  IF ~ session.ok THEN session
        ELSE Ok([sessions EXCEPT ![session.val].end_at = Some(t),
                                 ![session.val].note = note],
                session.val)

\* update_note that leaves a note that is already there.
update_note_if_absent(sessions, id, note) ==
    LET session == get_session_by_id(sessions, id)
    IN  IF ~ session.ok THEN session
        ELSE Ok([sessions EXCEPT ![session.val].note =
                                     IF is_none(@) THEN Some(note) ELSE @], 0)

\* Store::update_note.
update_note(sessions, id, note) ==
    LET session == get_session_by_id(sessions, id)
    IN  IF ~ session.ok THEN session
        ELSE Ok([sessions EXCEPT ![session.val].note = Some(note)], 0)

\* Store::get_all_labels: the HashSet of every label of every session.
get_all_labels(sessions) ==
    UNION {Range(sessions[i].labels) : i \in 1 .. Len(sessions)}

\* retain that drops only the first occurrence of name.
retain_first(labels, name) ==
    LET at == {i \in 1 .. Len(labels) : labels[i] = name}
    IN  IF at = {} THEN labels
        ELSE LET first == CHOOSE i \in at : \A j \in at : i <= j
             IN  SubSeq(labels, 1, first - 1) \o SubSeq(labels, first + 1, Len(labels))

\* session.labels.retain(|x| *x != name)
retain(labels, name) == SelectSeq(labels, LAMBDA x : x # name)

\* count_step that counts the session, not the labels it lost.
count_step_sessions(count_before, count_after) ==
    IF count_before > count_after THEN 1 ELSE 0

\* What one turn of the loop of remove_label adds to count.
count_step(count_before, count_after) == count_before - count_after

RECURSIVE remove_label_loop(_, _, _, _)
\* The loop of remove_label from session k on, count so far.
remove_label_loop(sessions, name, k, count) ==
    IF k > Len(sessions) THEN Ok(sessions, count)
    ELSE LET count_before == Len(sessions[k].labels)
             labels == retain(sessions[k].labels, name)
         IN  remove_label_loop([sessions EXCEPT ![k].labels = labels], name, k + 1,
                               count + count_step(count_before, Len(labels)))

\* remove_label that also drops the sessions left without a label.
remove_label_drop_empty(sessions, name) ==
    LET removed == remove_label_loop(sessions, name, 1, 0)
    IN  Ok(SelectSeq(removed.sessions, LAMBDA x : x.labels # << >>), removed.val)

\* Store::remove_label.
remove_label(sessions, name) == remove_label_loop(sessions, name, 1, 0)

\* ---------------------------------------------------------------- command line
\* The parsed command line (struct Cli): the subcommand and its arguments;
\* an argument the subcommand does not have is left at its default.
Command(op, id, note, labels, name, from, to, text) ==
    [op |-> op, id |-> id, note |-> note, labels |-> labels, name |-> name,
     from |-> from, to |-> to, text |-> text]

TableCmd(from, to, labels) == Command("table", None, None, labels, "", from, to, "")
StartCmd(labels)           == Command("start", None, None, labels, "", None, None, "")
EndCmd(id, note)           == Command("end", id, note, << >>, "", None, None, "")
NoteCmd(id, text)          == Command("note", Some(id), None, << >>, "", None, None, text)
ListCmd                    == Command("list", None, None, << >>, "", None, None, "")
RemoveCmd(name)            == Command("remove", None, None, << >>, name, None, None, "")
NoCmd                      == Command("none", None, None, << >>, "", None, None, "")

TableCommands  == {TableCmd(f, t, l) : f \in Option(Times), t \in Option(Times),
                                       l \in LabelLists}
StartCommands  == {StartCmd(l) : l \in LabelLists}
EndCommands    == {EndCmd(i, n) : i \in Option(IdArgs), n \in Option(Notes)}
NoteCommands   == {NoteCmd(i, t) : i \in IdArgs, t \in Notes}
ListCommands   == {ListCmd}
RemoveCommands == {RemoveCmd(n) : n \in LabelNames}

Commands == TableCommands \cup StartCommands \cup EndCommands \cup NoteCommands
            \cup ListCommands \cup RemoveCommands

\* ---------------------------------------------------------------- state
VARIABLES
    disk,   \* the document in the database file: a sequence of sessions
    store,  \* Store.sessions of the running process
    cmd,    \* the command line of the running process
    pc,     \* where main is: idle (no process), loaded, operated, printed,
            \* saved, panicked (the Store operation failed), save_panicked
            \* (Store::save failed)
    ret,    \* what the Store operation returned: [ok, err, val]
    now,    \* the wall clock (LocalTZ::now()) while the Store operation runs
    out,    \* standard output of the running process: None or Some(message)
    fd,     \* a call of format_duration: its arguments and what it returned
    bn      \* a call of built_multilined_note: its arguments, the locals of
            \* its loop and where it is

vars == << disk, store, cmd, pc, ret, now, out, fd, bn >>

\* No call of format_duration or of built_multilined_note is under way.
NoDuration == [pc |-> "idle", value |-> 0, still_running |-> FALSE,
               separator |-> "", result |-> ""]
NoNote     == [pc |-> "idle", input |-> << >>, max_width |-> 0,
               text |-> << >>, parts |-> << >>]

NoRet == [ok |-> TRUE, err |-> "", val |-> 0]

Init ==
    /\ disk = << >>
    /\ store = << >>
    /\ cmd = NoCmd
    /\ pc = "idle"
    /\ ret = NoRet
    /\ now = 0
    /\ out = None
    /\ fd = NoDuration
    /\ bn = NoNote

\* Store::from_store_file: no file gives the empty store, a file its sessions.
from_store_file(document) == document

\* The process starts with command line c and loads the store.
Invoke(c) ==
    /\ pc = "idle"
    /\ cmd' = c
    /\ store' = from_store_file(disk)
    /\ pc' = "loaded"
    /\ UNCHANGED << disk, ret, now, out >>
    /\ UNCHANGED << fd, bn >>

\* `.unwrap()` of the Store operation's result r: Ok goes on, Err panics.
Unwrap(r) ==
    /\ store' = r.sessions
    /\ ret' = [ok |-> r.ok, err |-> r.err, val |-> r.val]
    /\ pc' = IF r.ok THEN "operated" ELSE "panicked"

\* main, SessionCommands::Start: store.start_session(labels).unwrap()
SessionStart ==
    /\ pc = "loaded"
    /\ cmd.op = "start"
    /\ Len(store) < MaxSessions
    /\ \E t \in Times :
          /\ now' = t
          /\ Unwrap(start_session(store, cmd.labels, t))
    /\ UNCHANGED << disk, cmd, out >>
    /\ UNCHANGED << fd, bn >>

\* main, SessionCommands::End: store.end_session(id, note).unwrap()
SessionEnd ==
    /\ pc = "loaded"
    /\ cmd.op = "end"
    /\ \E t \in Times :
          /\ now' = t
          /\ Unwrap(end_session(store, cmd.id, cmd.note, t))
    /\ UNCHANGED << disk, cmd, out >>
    /\ UNCHANGED << fd, bn >>

\* main, SessionCommands::Note: store.update_note(&id, text).unwrap()
SessionNote ==
    /\ pc = "loaded"
    /\ cmd.op = "note"
    /\ Unwrap(update_note(store, unwrap(cmd.id), cmd.text))
    /\ UNCHANGED << disk, cmd, now, out >>
    /\ UNCHANGED << fd, bn >>

\* main, LabelCommands::Remove: store.remove_label(&name).unwrap()
LabelRemove ==
    /\ pc = "loaded"
    /\ cmd.op = "remove"
    /\ Unwrap(remove_label(store, cmd.name))
    /\ UNCHANGED << disk, cmd, now, out >>
    /\ UNCHANGED << fd, bn >>

\* main, LabelCommands::List: store.get_all_labels()
LabelList ==
    /\ pc = "loaded"
    /\ cmd.op = "list"
    /\ Unwrap(Ok(store, get_all_labels(store)))
    /\ UNCHANGED << disk, cmd, now, out >>
    /\ UNCHANGED << fd, bn >>

\* print_sessions: store.get_all_sessions(from_timestamp, to_timestamp, &labels)
SessionTable ==
    /\ pc = "loaded"
    /\ cmd.op = "table"
    /\ Unwrap(Ok(store, get_all_sessions(store, cmd.from, cmd.to, cmd.labels)))
    /\ UNCHANGED << disk, cmd, now, out >>
    /\ UNCHANGED << fd, bn >>

\* The message main prints for the command, from what the operation returned.
Message ==
    CASE cmd.op = "start"  -> << "New session was successfully started", store[ret.val].id >>
      [] cmd.op = "end"    -> << "The session was successfully ended", store[ret.val].id >>
      [] cmd.op = "note"   -> << "Updated." >>
      [] cmd.op = "remove" -> << "Removed labels", ret.val >>
      [] cmd.op = "list"   -> << "labels", ret.val >>
      [] cmd.op = "table"  -> << "table", [i \in 1 .. Len(ret.val) |-> store[ret.val[i]]] >>

\* println!: start, end and note print right after the operation, remove
\* prints after the save.
Println ==
    /\ \/ pc = "operated" /\ cmd.op \in {"start", "end", "note", "list", "table"}
       \/ pc = "saved" /\ cmd.op = "remove"
    /\ out' = Some(Message)
    /\ pc' = "printed"
    /\ UNCHANGED << disk, store, cmd, ret, now >>
    /\ UNCHANGED << fd, bn >>

\* Store::save: the store replaces the document of the database file.
Save ==
    /\ \/ pc = "printed" /\ cmd.op \in {"start", "end", "note"}
       \/ pc = "operated" /\ cmd.op = "remove"
    /\ disk' = store
    /\ pc' = "saved"
    /\ UNCHANGED << store, cmd, ret, now, out >>
    /\ UNCHANGED << fd, bn >>

\* Store::save returns Err (the file cannot be opened for writing) and
\* `.unwrap()` panics: the document stays as it was.
SaveFails ==
    /\ \/ pc = "printed" /\ cmd.op \in {"start", "end", "note"}
       \/ pc = "operated" /\ cmd.op = "remove"
    /\ pc' = "save_panicked"
    /\ UNCHANGED << disk, store, cmd, ret, now, out >>
    /\ UNCHANGED << fd, bn >>

\* The process ends: main returns, or the panic unwinds.
Exit ==
    /\ \/ pc = "saved" /\ cmd.op \in {"start", "end", "note"}
       \/ pc = "printed" /\ cmd.op \in {"remove", "list", "table"}
       \/ pc = "panicked"
       \/ pc = "save_panicked"
    /\ store' = << >>
    /\ cmd' = NoCmd
    /\ pc' = "idle"
    /\ ret' = NoRet
    /\ now' = 0
    /\ out' = None
    /\ UNCHANGED disk
    /\ UNCHANGED << fd, bn >>

\* The whole program: every subcommand with every argument.
Next ==
    \/ \E c \in Commands : Invoke(c)
    \/ SessionStart
    \/ SessionEnd
    \/ SessionNote
    \/ LabelRemove
    \/ LabelList
    \/ SessionTable
    \/ Println
    \/ Save
    \/ SaveFails
    \/ Exit

Spec == Init /\ [][Next]_vars

\* The runs of `wtt session start|end|note` and `wtt label list|remove`:
\* every command that writes the database file, and the label listing.
NextSession ==
    \/ \E c \in StartCommands \cup EndCommands \cup NoteCommands
                \cup ListCommands \cup RemoveCommands : Invoke(c)
    \/ SessionStart
    \/ SessionEnd
    \/ SessionNote
    \/ LabelRemove
    \/ LabelList
    \/ Println
    \/ Save
    \/ SaveFails
    \/ Exit

SpecSession == Init /\ [][NextSession]_vars

\* The runs of `wtt session table` with every filter, over the stores that
\* `wtt session start` and `wtt session end` (without --note) build.
NextTable ==
    \/ \E c \in StartCommands \cup {EndCmd(i, None) : i \in Option(IdArgs)}
                \cup TableCommands : Invoke(c)
    \/ SessionStart
    \/ SessionEnd
    \/ SessionTable
    \/ Println
    \/ Save
    \/ SaveFails
    \/ Exit

SpecTable == Init /\ [][NextTable]_vars

\* ---------------------------------------------------------------- format_duration
RECURSIVE join(_, _)
\* parts.join(separator) of strings.
join(parts, separator) ==
    IF parts = << >> THEN ""
    ELSE IF Len(parts) = 1 THEN parts[1]
    ELSE parts[1] \o separator \o join(Tail(parts), separator)

\* format_duration that leaves out a minutes part of 0 beside hours.
format_duration_skip_zero_minutes(value, still_running, separator) ==
    LET running == IF still_running THEN << "for now" >> ELSE << >>
        hours == value \div 60
        with_hours == IF hours > 0
                      THEN Append(running, ToString(hours) \o " hours")
                      ELSE running
        minutes == value % 60
        parts == IF minutes > 0 \/ hours = 0
                 THEN Append(with_hours, ToString(minutes) \o " minutes")
                 ELSE with_hours
    IN  join(parts, separator)

\* format_duration: value is a number of minutes (u32).
format_duration(value, still_running, separator) ==
    LET running == IF still_running THEN << "for now" >> ELSE << >>
        hours == value \div 60
        with_hours == IF hours > 0
                      THEN Append(running, ToString(hours) \o " hours")
                      ELSE running
        minutes == value % 60
        parts == Append(with_hours, ToString(minutes) \o " minutes")
    IN  join(parts, separator)

\* The calls of format_duration: print_sessions passes "\n" for a row and
\* " " for the total.
DurationCalls ==
    {[pc |-> "called", value |-> v, still_running |-> r, separator |-> sep,
      result |-> ""] : v \in 0 .. MaxMinutes, r \in BOOLEAN, sep \in {" ", "\n"}}

InitDuration ==
    /\ disk = << >> /\ store = << >> /\ cmd = NoCmd /\ pc = "idle"
    /\ ret = NoRet /\ now = 0 /\ out = None
    /\ fd \in DurationCalls
    /\ bn = NoNote

\* format_duration returns.
FormatDuration ==
    /\ fd.pc = "called"
    /\ fd' = [fd EXCEPT !.pc = "returned",
                        !.result = format_duration(fd.value, fd.still_running,
                                                   fd.separator)]
    /\ UNCHANGED << disk, store, cmd, pc, ret, now, out, bn >>

NextDuration == FormatDuration

SpecDuration == InitDuration /\ [][NextDuration]_vars

\* ---------------------------------------------------------------- built_multilined_note
\* A &str is its sequence of UTF-8 bytes: a letter "x", a space " ", and a
\* two-byte character made of the bytes "c3" and "a9".
Bytes == {"x", " ", "c3", "a9"}

\* The byte sequences that are valid UTF-8.
IsStr(text) ==
    \A i \in 1 .. Len(text) :
        /\ text[i] = "c3" => (i < Len(text) /\ text[i + 1] = "a9")
        /\ text[i] = "a9" => (i > 1 /\ text[i - 1] = "c3")

Strs == {text \in UNION {[1 .. n -> Bytes] : n \in 0 .. MaxText} : IsStr(text)}

\* str::is_char_boundary(index), index counted from 0.
is_char_boundary(text, index) ==
    \/ index = 0
    \/ index = Len(text)
    \/ index < Len(text) /\ text[index + 1] # "a9"

RECURSIVE trim_start(_)
\* str::trim_start
trim_start(text) ==
    IF text # << >> /\ Head(text) = " " THEN trim_start(Tail(text)) ELSE text

\* The for loop over text.char_indices(): the index of the last space
\* among the characters that begin before max_width.
last_whitespace_index(text, max_width) ==
    LET spaces == {index \in 0 .. (Len(text) - 1) :
                      /\ index < max_width
                      /\ is_char_boundary(text, index)
                      /\ text[index + 1] = " "}
    IN  IF spaces = {} THEN None
        ELSE Some(CHOOSE index \in spaces : \A other \in spaces : other <= index)

\* Where a text without a space in range is cut, one byte later than the
\* code cuts it.
hard_split_index_wide(max_width) == max_width + 1

\* Where a text without a space in range is cut: max_width - 1 (usize).
hard_split_index(max_width) == max_width - 1

\* parts.join("\n") of byte sequences.
RECURSIVE join_lines(_)
join_lines(parts) ==
    IF parts = << >> THEN << >>
    ELSE IF Len(parts) = 1 THEN parts[1]
    ELSE parts[1] \o << "\n" >> \o join_lines(Tail(parts))

\* One turn of the while loop of built_multilined_note, from its test on:
\* b holds text, parts and max_width.  usize subtraction below 0 and
\* split_at off a character boundary panic.
while_turn(b) ==
    IF ~ (Len(b.text) > 0)
    THEN [b EXCEPT !.pc = "returned"]
    ELSE IF Len(b.text) <= b.max_width
    THEN [b EXCEPT !.pc = "returned", !.parts = Append(@, b.text)]
    ELSE LET ws_index == last_whitespace_index(b.text, b.max_width)
         IN  IF is_some(ws_index)
             THEN [b EXCEPT !.parts = Append(@, SubSeq(b.text, 1, unwrap(ws_index))),
                            !.text = trim_start(SubSeq(b.text, unwrap(ws_index) + 1,
                                                       Len(b.text)))]
             ELSE LET mid == hard_split_index(b.max_width)
                  IN  IF mid < 0 \/ mid > Len(b.text)
                         \/ ~ is_char_boundary(b.text, mid)
                      THEN [b EXCEPT !.pc = "panicked"]
                      ELSE [b EXCEPT !.parts = Append(@, SubSeq(b.text, 1, mid)),
                                     !.text = SubSeq(b.text, mid + 1, Len(b.text))]

\* The calls of built_multilined_note: a note and the width of the cell.
NoteCalls ==
    {[pc |-> "loop", input |-> text, max_width |-> w, text |-> text,
      parts |-> << >>] : text \in Strs, w \in 0 .. MaxWidth}

InitNote ==
    /\ disk = << >> /\ store = << >> /\ cmd = NoCmd /\ pc = "idle"
    /\ ret = NoRet /\ now = 0 /\ out = None
    /\ fd = NoDuration
    /\ bn \in NoteCalls

\* One turn of the loop.  A loop that goes on for ever is followed for
\* MaxParts lines.
BuiltMultilinedNote ==
    /\ bn.pc = "loop"
    /\ Len(bn.parts) < MaxParts
    /\ bn' = while_turn(bn)
    /\ UNCHANGED << disk, store, cmd, pc, ret, now, out, fd >>

NextNote == BuiltMultilinedNote

SpecNote == InitNote /\ [][NextNote]_vars

\* What built_multilined_note returns.
NoteResult == join_lines(bn.parts)

\* ================================================================ claims
\* While main is between the Store operation and the save (operated,
\* printed, panicked) disk still holds the document the process loaded:
\* disk is the store before the operation, store the store after it.
AfterOp(op) == cmd.op = op /\ pc \in {"operated", "printed", "panicked"}

Positions(sessions) == 1 .. Len(sessions)
Running(sessions)   == {k \in Positions(sessions) : sessions[k].end_at = None}
WithId(sessions, id) == {k \in Positions(sessions) : sessions[k].id = id}

\* ---------------------------------------------------------------- C1
\* The three filter axes of the listing, as the specification words them.
Matches(s, from, to, labels) ==
    /\ from = None \/ s.start_at >= unwrap(from)
    /\ to = None \/ s.end_at = None \/ unwrap(s.end_at) <= unwrap(to)
    /\ labels = << >> \/ Range(s.labels) \cap Range(labels) # {}

C1_WitnessExcluded ==
    /\ cmd.op = "table" /\ pc = "operated"
    /\ cmd.to # None
    /\ Len(ret.val) = 1 /\ Len(store) = 2
    /\ store[ret.val[1]].end_at = None

\* ---------------------------------------------------------------- C5
\* C5: with an upper bound `to`, every session the listing returns was
\* started at or before that bound.
C5_StartedByTo ==
    (cmd.op = "table" /\ pc = "operated" /\ cmd.to # None) =>
        \A i \in 1 .. Len(ret.val) : store[ret.val[i]].start_at <= unwrap(cmd.to)

\* ---------------------------------------------------------------- C2
\* C2: end_session with the id of a session that has already ended fails
\* with the "already ended" error and changes no field of any session,
\* whatever note it passes and whatever the clock reads.
C2_EndTwiceFails ==
    (/\ AfterOp("end") /\ cmd.id # None
     /\ \E k \in WithId(disk, unwrap(cmd.id)) : disk[k].end_at # None) =>
        /\ pc = "panicked"
        /\ ~ ret.ok /\ ret.err = ERR_ALREADY_ENDED
        /\ store = disk

\* The second end call passes another note at another clock reading.
C2_Witness ==
    /\ AfterOp("end") /\ cmd.id # None
    /\ \E k \in WithId(disk, unwrap(cmd.id)) :
          /\ disk[k].end_at # None
          /\ disk[k].end_at # Some(now)
          /\ disk[k].note # cmd.note
          /\ store[k].end_at = disk[k].end_at /\ store[k].note = disk[k].note
    /\ pc = "panicked"

\* ---------------------------------------------------------------- C3
\* C3: end_session without an id, on a store with two or more running
\* sessions of distinct start_at, ends the running session of greatest
\* start_at and leaves every other session as it was.
C3_EndsNewestOnly ==
    (/\ AfterOp("end") /\ cmd.id = None
     /\ Cardinality(Running(disk)) >= 2
     /\ \A i, j \in Running(disk) : i # j => disk[i].start_at # disk[j].start_at) =>
        /\ pc # "panicked"
        /\ Len(store) = Len(disk)
        /\ \E m \in Running(disk) :
              /\ \A j \in Running(disk) : disk[j].start_at <= disk[m].start_at
              /\ store[m].end_at = Some(now)
              /\ store[m] # disk[m]
              /\ \A j \in Positions(disk) \ {m} : store[j] = disk[j]

\* The newest running session is not the last session of the store.
C3_Witness ==
    /\ AfterOp("end") /\ cmd.id = None /\ pc = "operated"
    /\ Cardinality(Running(disk)) >= 2
    /\ \A i, j \in Running(disk) : i # j => disk[i].start_at # disk[j].start_at
    /\ store[1].end_at # None /\ disk[1].end_at = None
    /\ store[2].end_at = None

\* ---------------------------------------------------------------- C4
\* C4: a Store operation that fails has not changed the store, and the
\* process then ends without saving: the document is the one it loaded.
C4_FailedLeavesDocument ==
    [][/\ (pc = "loaded" /\ pc' = "panicked") => (store' = store /\ disk' = disk)
       /\ pc = "panicked" => (pc' = "idle" /\ disk' = disk)]_vars

\* A failed end_session on a store that holds sessions.
C4_Witness ==
    /\ pc = "panicked" /\ cmd.op = "end" /\ ret.err = ERR_NO_RUNNING
    /\ disk # << >> /\ store = disk

\* A failed update_note on a store that holds sessions.
C4_WitnessNote ==
    /\ pc = "panicked" /\ cmd.op = "note" /\ ret.err = ERR_NOT_FOUND
    /\ disk # << >> /\ store = disk

\* ---------------------------------------------------------------- C6
\* C6: a successful end_session sets the session's end_at to the current
\* instant and its note to the note argument, whatever the note was.
C6_EndSetsEndAndNote ==
    (AfterOp("end") /\ pc # "panicked") =>
        /\ ret.val \in Positions(store)
        /\ disk[ret.val].end_at = None
        /\ store[ret.val].end_at = Some(now)
        /\ store[ret.val].note = cmd.note

\* A note set by update_note on the running session is cleared by an
\* end_session without a note.
C6_Witness ==
    /\ AfterOp("end") /\ pc = "operated"
    /\ cmd.note = None
    /\ disk[ret.val].note # None
    /\ store[ret.val].note = None

\* ---------------------------------------------------------------- C7
\* C7: update_note succeeds exactly when a session carries the id, running
\* or ended, and then that session's note is the text; else "not found".
C7_UpdateNote ==
    AfterOp("note") =>
        IF WithId(disk, unwrap(cmd.id)) # {}
        THEN /\ pc # "panicked" /\ ret.ok
             /\ Len(store) = Len(disk)
             /\ \A k \in WithId(disk, unwrap(cmd.id)) : store[k].note = Some(cmd.text)
        ELSE /\ pc = "panicked" /\ ~ ret.ok /\ ret.err = ERR_NOT_FOUND

\* The note of an ended session that had another note is replaced.
C7_Witness ==
    /\ AfterOp("note") /\ pc = "operated"
    /\ \E k \in WithId(disk, unwrap(cmd.id)) :
          /\ disk[k].end_at # None
          /\ disk[k].note # None /\ disk[k].note # Some(cmd.text)
          /\ store[k].note = Some(cmd.text)

\* ---------------------------------------------------------------- C8
\* The sessions whose label list holds name, and the places name holds in
\* the label lists.
Labelled(sessions, name) ==
    {k \in Positions(sessions) : name \in Range(sessions[k].labels)}
Occurrences(sessions, name) ==
    {<< k, i >> \in Positions(sessions) \X (1 .. MaxLabels + 1) :
        i <= Len(sessions[k].labels) /\ sessions[k].labels[i] = name}

\* C8 as stated: remove_label returns the number of sessions whose label
\* list held name.
C8_CountsSessions ==
    (AfterOp("remove") /\ pc = "operated") =>
        ret.val = Cardinality(Labelled(disk, cmd.name))

\* C8 amended: remove_label returns the number of occurrences of name it
\* removed from the label lists (0 when there is none), which is the
\* number of sessions modified when no list holds name twice.
C8_CountsOccurrences ==
    (AfterOp("remove") /\ pc = "operated") =>
        /\ ret.ok
        /\ ret.val = Cardinality(Occurrences(disk, cmd.name))
        /\ ret.val >= Cardinality(Labelled(disk, cmd.name))
        /\ (\A k \in Positions(disk) :
               Cardinality({i \in 1 .. Len(disk[k].labels) : disk[k].labels[i] = cmd.name}) <= 1)
           => ret.val = Cardinality({k \in Positions(disk) : store[k] # disk[k]})

\* A session holds name twice and another holds it once.
C8_Witness ==
    /\ AfterOp("remove") /\ pc = "operated"
    /\ ret.val = 3
    /\ Cardinality(Labelled(disk, cmd.name)) = 2

\* ---------------------------------------------------------------- C9
\* C9: after remove_label(name) no label list holds name, so the set of
\* all labels does not; name comes back into the document only by a
\* start_session that passes it.
C9_LabelGone ==
    /\ [](cmd.op = "remove" /\ pc \in {"operated", "saved", "printed"} =>
            /\ Occurrences(store, cmd.name) = {}
            /\ cmd.name \notin get_all_labels(store))
    /\ [][\A name \in LabelNames :
            (Occurrences(disk, name) = {} /\ Occurrences(disk', name) # {}) =>
                (cmd.op = "start" /\ name \in Range(cmd.labels))]_vars

\* Every occurrence of a name a session held twice is gone.
C9_Witness ==
    /\ cmd.op = "remove" /\ pc = "saved"
    /\ \E k \in Positions(disk) : store[k].labels = << >>
    /\ Cardinality(Occurrences(store, cmd.name)) = 0
    /\ get_all_labels(disk) = LabelNames \ {cmd.name}

\* ---------------------------------------------------------------- C10
\* C10: the ids of the sessions of the store are pairwise distinct, and so
\* are those of the document.
C10_UniqueIds ==
    /\ \A i, j \in Positions(store) : i # j => store[i].id # store[j].id
    /\ \A i, j \in Positions(disk) : i # j => disk[i].id # disk[j].id

\* A full store after commands of every kind.
C10_Witness ==
    /\ Len(disk) = MaxSessions
    /\ \E k \in Positions(disk) : disk[k].end_at # None /\ disk[k].note # None
    /\ \E k \in Positions(disk) : disk[k].end_at = None

\* ---------------------------------------------------------------- C11
Mutating == {"start", "end", "note", "remove"}

\* C11: a mutating command prints its success message after the save, so
\* a run whose save failed has printed no success message.
C11_NoMessageWhenSaveFails ==
    (cmd.op \in Mutating /\ pc = "save_panicked") => out = None

\* ---------------------------------------------------------------- C12
\* From one state to the next every session of before is still there, at
\* its position, with field(before, after) holding of it.
Kept(before, after, field(_, _)) ==
    \A k \in Positions(before) :
        k \in Positions(after) /\ field(before[k], after[k])

SameEndOnceSet(s, t) == s.end_at # None => t.end_at = s.end_at

\* C12: once a session's end_at is present it never changes and never
\* becomes absent, in the document and in the store of a running process;
\* an end_session without id never picks a session that has ended.
C12_EndAtSetOnce ==
    /\ [][Kept(disk, disk', SameEndOnceSet)]_vars
    /\ [][pc' # "idle" => Kept(store, store', SameEndOnceSet)]_vars
    /\ []((AfterOp("end") /\ cmd.id = None /\ pc # "panicked") =>
             disk[ret.val].end_at = None)

\* An end without id passes over an ended session that started later than
\* the one it ends.
C12_Witness ==
    /\ AfterOp("end") /\ cmd.id = None /\ pc = "operated"
    /\ \E k \in Positions(disk) :
          /\ disk[k].end_at # None
          /\ disk[k].start_at > disk[ret.val].start_at
          /\ store[k] = disk[k]

\* ---------------------------------------------------------------- C13
SameIdAndStart(s, t) == t.id = s.id /\ t.start_at = s.start_at

\* C13: every session keeps its id, its start_at and its position in the
\* sequence, in the document and in the store of a running process.
C13_IdAndStartFixed ==
    /\ [][Kept(disk, disk', SameIdAndStart)]_vars
    /\ [][pc' # "idle" => Kept(store, store', SameIdAndStart)]_vars

\* A document of sessions not in start_at order after a session was
\* added behind an ended one and a label was removed.
C13_Witness ==
    /\ cmd.op = "remove" /\ pc = "saved" /\ ret.val > 0
    /\ Len(disk) = 2
    /\ disk[1].end_at # None /\ disk[1].note # None
    /\ disk[1].start_at > disk[2].start_at

\* ---------------------------------------------------------------- C14
\* C14: start_session never fails; it appends one running session with an
\* id no other session has, start_at the current instant, no note and the
\* labels as passed, changes no other session and returns the new one.
C14_StartAppends ==
    AfterOp("start") =>
        /\ pc # "panicked" /\ ret.ok
        /\ Len(store) = Len(disk) + 1
        /\ \A k \in Positions(disk) : store[k] = disk[k]
        /\ ret.val = Len(store)
        /\ store[ret.val].start_at = now
        /\ store[ret.val].end_at = None
        /\ store[ret.val].note = None
        /\ store[ret.val].labels = cmd.labels
        /\ \A k \in Positions(disk) : disk[k].id # store[ret.val].id

\* A start with the same label twice while another session is running.
C14_Witness ==
    /\ AfterOp("start") /\ pc = "operated"
    /\ Running(disk) # {}
    /\ Len(cmd.labels) = 2 /\ cmd.labels[1] = cmd.labels[2]
    /\ store[ret.val].labels = cmd.labels

\* ---------------------------------------------------------------- C15
\* C15: remove_label keeps the number and order of the sessions and their
\* id, start_at, end_at and note; it takes the occurrences of name out of
\* each label list, the other labels staying in order, and leaves a
\* session without name as it was.
C15_RemoveLabelFrame ==
    AfterOp("remove") =>
        /\ pc # "panicked"
        /\ Len(store) = Len(disk)
        /\ \A k \in Positions(disk) :
              /\ store[k].id = disk[k].id
              /\ store[k].start_at = disk[k].start_at
              /\ store[k].end_at = disk[k].end_at
              /\ store[k].note = disk[k].note
              /\ store[k].labels = SelectSeq(disk[k].labels, LAMBDA x : x # cmd.name)
              /\ cmd.name \notin Range(disk[k].labels) => store[k] = disk[k]

\* One session loses its only label and stays, another keeps the label
\* it had beside name.
C15_Witness ==
    /\ AfterOp("remove") /\ pc = "operated"
    /\ Len(store) = 2
    /\ \E k \in Positions(disk) : disk[k].labels # << >> /\ store[k].labels = << >>
    /\ \E k \in Positions(disk) : Len(disk[k].labels) = 2 /\ Len(store[k].labels) = 1

\* ---------------------------------------------------------------- C20
\* The running sessions of the greatest start_at.
Newest(sessions) ==
    {k \in Running(sessions) :
        \A j \in Running(sessions) : sessions[j].start_at <= sessions[k].start_at}

\* C20: when several running sessions share the greatest start_at, an
\* end_session without id ends the one that is last in store order and
\* no other.
C20_EndsLastOfTies ==
    (AfterOp("end") /\ cmd.id = None /\ Cardinality(Newest(disk)) >= 2) =>
        /\ pc # "panicked"
        /\ \A k \in Newest(disk) : k <= ret.val
        /\ ret.val \in Newest(disk)
        /\ store[ret.val].end_at = Some(now)
        /\ \A k \in Positions(disk) \ {ret.val} : store[k] = disk[k]

\* Two running sessions started in the same second.
C20_Witness ==
    /\ AfterOp("end") /\ cmd.id = None /\ pc = "operated"
    /\ Cardinality(Newest(disk)) >= 2
    /\ store[1].end_at = None
    /\ store[2].end_at # None

\* ---------------------------------------------------------------- C18
\* C18: format_duration(value, false, " ") is "<value> minutes" below 60
\* and "<value div 60> hours <value mod 60> minutes" from 60 on, the
\* minutes part present also when it is 0.
C18_FormatDuration ==
    (fd.pc = "returned" /\ ~ fd.still_running /\ fd.separator = " ") =>
        /\ fd.value < 60 => fd.result = ToString(fd.value) \o " minutes"
        /\ fd.value >= 60 =>
              fd.result = ToString(fd.value \div 60) \o " hours "
                          \o ToString(fd.value % 60) \o " minutes"
        /\ fd.value = 45 => fd.result = "45 minutes"
        /\ fd.value = 125 => fd.result = "2 hours 5 minutes"
        /\ fd.value = 120 => fd.result = "2 hours 0 minutes"
        /\ fd.value = 0 => fd.result = "0 minutes"

\* 125 minutes formatted for the total.
C18_Witness ==
    /\ fd.pc = "returned" /\ ~ fd.still_running /\ fd.separator = " "
    /\ fd.value = 125
    /\ fd.result = "2 hours 5 minutes"

\* ---------------------------------------------------------------- C16
RECURSIVE SplitAt(_, _, _)
\* The runs of text between the bytes of seps, empty runs kept or not.
SplitAt(text, seps, cur) ==
    IF text = << >> THEN << cur >>
    ELSE IF Head(text) \in seps
         THEN << cur >> \o SplitAt(Tail(text), seps, << >>)
         ELSE SplitAt(Tail(text), seps, Append(cur, Head(text)))

\* The lines of a text, and its words: the non-empty runs between spaces
\* and line breaks.
Lines(text) == SplitAt(text, {"\n"}, << >>)
Words(text) == SelectSeq(SplitAt(text, {" ", "\n"}, << >>), LAMBDA w : w # << >>)

\* C16: every line built_multilined_note produces is at most max_width
\* long: those collected while the loop runs and those of the result.
C16_LinesWithinWidth ==
    /\ \A i \in 1 .. Len(bn.parts) : Len(bn.parts[i]) <= bn.max_width
    /\ bn.pc = "returned" =>
          \A i \in 1 .. Len(Lines(NoteResult)) :
              Len(Lines(NoteResult)[i]) <= bn.max_width

\* A run without a space of more than twice the width, cut into lines.
C16_Witness ==
    /\ bn.pc = "returned"
    /\ bn.max_width >= 2
    /\ " " \notin Range(bn.input)
    /\ Len(bn.input) > 2 * bn.max_width
    /\ Len(Lines(NoteResult)) >= 3

\* ---------------------------------------------------------------- C17
\* C17: a text with spaces whose words are all at most max_width long is
\* broken at spaces only: the words of the result are the words of the
\* text.
C17_NoWordCut ==
    (/\ bn.pc = "returned"
     /\ " " \in Range(bn.input)
     /\ \A i \in 1 .. Len(Words(bn.input)) : Len(Words(bn.input)[i]) <= bn.max_width) =>
        Words(NoteResult) = Words(bn.input)

\* ---------------------------------------------------------------- C19
\* C19: for max_width >= 1 every turn of the loop that does not leave it
\* makes the remaining text shorter.
C19_TurnShortens ==
    [][(bn.pc = "loop" /\ bn.max_width >= 1 /\ bn'.pc = "loop" /\ bn' # bn) =>
           Len(bn'.text) < Len(bn.text)]_vars

====
